---- MODULE Spec2Model ----
(***************************************************************************)
(* Product Inventory API (src/main.py): the in-memory store fake_db, the   *)
(* id counter product_counter and the four product handlers                *)
(* read_products, read_product, create_product and delete_product.         *)
(*                                                                         *)
(* Spec     : handlers dispatched one at a time, each handler one step.    *)
(* SpecConc : several create requests in flight on the event loop, the     *)
(*            body of create_product taken statement by statement.         *)
(***************************************************************************)
EXTENDS Integers, Sequences, FiniteSets, TLC

VARIABLES
    fake_db,          \* the dict, as its items in insertion order: <<[key, value], ...>>
    product_counter,  \* the module-level counter
    resp,             \* the last response sent: [op, args, status, body]
    assigned,         \* history: ids returned by successful creates, in order
    deleted,          \* history: ids whose delete succeeded
    returned,         \* history: the products returned by creates whose id was not deleted since
    tasks,            \* SpecConc: the create requests in flight
    running           \* SpecConc: the task the event loop is executing, 0 when none

vars == <<fake_db, product_counter, resp, assigned, deleted, returned, tasks, running>>

-----------------------------------------------------------------------------
(* Bounds and input domains *)

MaxProducts == 2      \* successful creates per behaviour of Spec
NTasks == 2           \* create requests in flight in SpecConc

MinNameLen == 1
MaxNameLen == 100
MinLimit == 1
MaxLimit == 100

Rep(n) == [i \in 1..n |-> "a"]

None == <<>>          \* Optional[T]: None is <<>>, a value v is <<v>>
Some(v) == <<v>>

Times == {1, 2}       \* readings of datetime.now()

ValidBodies ==
    { [name |-> Rep(1), description |-> None, price |-> 1, in_stock |-> None],
      [name |-> Rep(MaxNameLen), description |-> Some("d"), price |-> 2,
       in_stock |-> Some(FALSE)],
      [name |-> <<"b">>, description |-> Some("d"), price |-> 1,
       in_stock |-> Some(TRUE)] }

InvalidBodies ==
    { [name |-> Rep(0), description |-> None, price |-> 10, in_stock |-> None],
      [name |-> Rep(MaxNameLen + 1), description |-> None, price |-> 1,
       in_stock |-> None],
      [name |-> <<"x">>, description |-> None, price |-> 0, in_stock |-> None],
      [name |-> <<"x">>, description |-> None, price |-> -5,
       in_stock |-> Some(FALSE)] }

Bodies == ValidBodies \cup InvalidBodies

Ids == 0..(MaxProducts + 1)
Skips == {-1, 0, 1, 2, MaxProducts + 1}
Limits == {0, 1, 2, MaxLimit, MaxLimit + 1}
Filters == {None, Some(TRUE), Some(FALSE)}

-----------------------------------------------------------------------------
(* The dict fake_db *)

Keys(db) == {db[i].key : i \in 1..Len(db)}

Values(db) == [i \in 1..Len(db) |-> db[i].value]

DictHas(db, k) == \E i \in 1..Len(db) : db[i].key = k

DictGet(db, k) == db[CHOOSE i \in 1..Len(db) : db[i].key = k].value

DictSetByLen(db, k, v) ==
    IF \E i \in 1..Len(db) : db[i].key = Len(db) + 1
    THEN [i \in 1..Len(db) |->
            IF db[i].key = Len(db) + 1 THEN [key |-> Len(db) + 1, value |-> v]
            ELSE db[i]]
    ELSE Append(db, [key |-> Len(db) + 1, value |-> v])

DictSet(db, k, v) ==
    IF \E i \in 1..Len(db) : db[i].key = k
    THEN [i \in 1..Len(db) |->
            IF db[i].key = k THEN [key |-> k, value |-> v] ELSE db[i]]
    ELSE Append(db, [key |-> k, value |-> v])

DictDelByIndex(db, k) ==
    IF k <= Len(db)
    THEN [i \in 1..(Len(db) - 1) |-> IF i < k THEN db[i] ELSE db[i + 1]]
    ELSE db

DictDel(db, k) == SelectSeq(db, LAMBDA e : e.key # k)

-----------------------------------------------------------------------------
(* Validation declared on the models and the handler signatures *)

ValidNameNoMax(name) == Len(name) >= MinNameLen

ValidName(name) == Len(name) >= MinNameLen /\ Len(name) <= MaxNameLen

ValidPriceGe(price) == price >= 0

ValidPrice(price) == price > 0

ValidProductCreate(body) == ValidName(body.name) /\ ValidPrice(body.price)

ModelDump(body) ==
    [name |-> body.name,
     description |-> body.description,
     price |-> body.price,
     in_stock |-> IF body.in_stock = None THEN TRUE ELSE body.in_stock[1]]

ValidProductId(product_id) == product_id > 0

ValidSkip(skip) == skip >= 0

ValidLimit(limit) == limit >= MinLimit /\ limit <= MaxLimit

-----------------------------------------------------------------------------
(* Handler bodies *)

Min(a, b) == IF a < b THEN a ELSE b

PySlice(s, lo, hi) ==
    LET start == Min(lo, Len(s))
        stop == Min(hi, Len(s))
    IN  IF start >= stop THEN <<>> ELSE SubSeq(s, start + 1, stop)

Matches(item, in_stock) == item.in_stock = in_stock[1]

ListProductsSliceFirst(db, skip, limit, in_stock) ==
    LET page == PySlice(Values(db), skip, skip + limit)
    IN  IF in_stock # None
        THEN SelectSeq(page, LAMBDA item : Matches(item, in_stock))
        ELSE page

ListProducts(db, skip, limit, in_stock) ==
    LET all_items == Values(db)
        filtered_items ==
            IF in_stock # None
            THEN SelectSeq(all_items, LAMBDA item : Matches(item, in_stock))
            ELSE all_items
    IN  PySlice(filtered_items, skip, skip + limit)

BuildProduct(body, id, now) ==
    LET d == ModelDump(body)
    IN  [id |-> id, created_at |-> now, name |-> d.name,
         description |-> d.description, price |-> d.price,
         in_stock |-> d.in_stock]

NextCounterFromLen(db, counter) == Len(db) + 1

NextCounterSame(db, counter) == counter

NextCounter(db, counter) == counter + 1

Response(op, args, status, body) ==
    [op |-> op, args |-> args, status |-> status, body |-> body]

NoTask == [pc |-> "idle", body |-> None, db_product |-> None,
           status |-> 0, concurrent |-> FALSE]

Init ==
    /\ fake_db = <<>>
    /\ product_counter = 1
    /\ resp = Response("none", None, 0, None)
    /\ assigned = <<>>
    /\ deleted = {}
    /\ returned = {}
    /\ tasks = [t \in 1..NTasks |-> NoTask]
    /\ running = 0

-----------------------------------------------------------------------------
(* Spec: one handler per step *)

ReadProducts(skip, limit, in_stock) ==
    /\ resp' = IF ValidSkip(skip) /\ ValidLimit(limit)
               THEN Response("list", <<skip, limit, in_stock>>, 200,
                             ListProducts(fake_db, skip, limit, in_stock))
               ELSE Response("list", <<skip, limit, in_stock>>, 422, None)
    /\ UNCHANGED <<fake_db, product_counter, assigned, deleted, returned,
                   tasks, running>>

ReadProductPop(product_id) ==
    /\ resp' = IF ~ValidProductId(product_id)
               THEN Response("get", product_id, 422, None)
               ELSE IF ~DictHas(fake_db, product_id)
               THEN Response("get", product_id, 404, None)
               ELSE Response("get", product_id, 200, DictGet(fake_db, product_id))
    /\ fake_db' = DictDel(fake_db, product_id)
    /\ UNCHANGED <<product_counter, assigned, deleted, returned, tasks, running>>

ReadProduct(product_id) ==
    /\ resp' = IF ~ValidProductId(product_id)
               THEN Response("get", product_id, 422, None)
               ELSE IF ~DictHas(fake_db, product_id)
               THEN Response("get", product_id, 404, None)
               ELSE Response("get", product_id, 200, DictGet(fake_db, product_id))
    /\ UNCHANGED <<fake_db, product_counter, assigned, deleted, returned,
                   tasks, running>>

CreateProduct(body, now) ==
    IF ~ValidProductCreate(body)
    THEN /\ resp' = Response("create", body, 422, None)
         /\ UNCHANGED <<fake_db, product_counter, assigned, deleted, returned,
                        tasks, running>>
    ELSE /\ product_counter <= MaxProducts
         /\ LET db_product == BuildProduct(body, product_counter, now)
                db == DictSet(fake_db, product_counter, db_product)
            IN  /\ fake_db' = db
                /\ product_counter' = NextCounter(db, product_counter)
                /\ resp' = Response("create", body, 201, db_product)
                /\ assigned' = Append(assigned, db_product.id)
                /\ returned' = returned \cup {db_product}
         /\ UNCHANGED <<deleted, tasks, running>>

DeleteProductPopDefault(product_id) ==
    IF ~ValidProductId(product_id)
    THEN /\ resp' = Response("delete", product_id, 422, None)
         /\ UNCHANGED <<fake_db, product_counter, assigned, deleted, returned,
                        tasks, running>>
    ELSE /\ fake_db' = DictDel(fake_db, product_id)
         /\ resp' = Response("delete", product_id, 200, None)
         /\ deleted' = deleted \cup {product_id}
         /\ returned' = {p \in returned : p.id # product_id}
         /\ UNCHANGED <<product_counter, assigned, tasks, running>>

DeleteProduct(product_id) ==
    IF ~ValidProductId(product_id)
    THEN /\ resp' = Response("delete", product_id, 422, None)
         /\ UNCHANGED <<fake_db, product_counter, assigned, deleted, returned,
                        tasks, running>>
    ELSE IF ~DictHas(fake_db, product_id)
    THEN /\ resp' = Response("delete", product_id, 404, None)
         /\ UNCHANGED <<fake_db, product_counter, assigned, deleted, returned,
                        tasks, running>>
    ELSE /\ fake_db' = DictDel(fake_db, product_id)
         /\ resp' = Response("delete", product_id, 200, None)
         /\ deleted' = deleted \cup {product_id}
         /\ returned' = {p \in returned : p.id # product_id}
         /\ UNCHANGED <<product_counter, assigned, tasks, running>>

Next ==
    \/ \E skip \in Skips, limit \in Limits, in_stock \in Filters :
          ReadProducts(skip, limit, in_stock)
    \/ \E product_id \in Ids : ReadProduct(product_id)
    \/ \E body \in Bodies, now \in Times : CreateProduct(body, now)
    \/ \E product_id \in Ids : DeleteProduct(product_id)

Spec == Init /\ [][Next]_vars

-----------------------------------------------------------------------------
(* SpecConc: create requests in flight on one event loop.  create_product   *)
(* is a coroutine; the loop switches tasks only where a coroutine awaits.   *)

ConcBodies ==
    { [name |-> Rep(1), description |-> None, price |-> 1, in_stock |-> None],
      [name |-> <<"b">>, description |-> Some("d"), price |-> 2,
       in_stock |-> Some(FALSE)],
      [name |-> Rep(0), description |-> None, price |-> 10, in_stock |-> None] }

AwaitBetweenStatements == {"L137", "L138", "L139"}

\* the statements of create_product before which the coroutine awaits: none
AwaitPoints == {}

After(t, pc) == IF pc \in AwaitPoints THEN 0 ELSE t

InFlight(t) == tasks[t].pc \notin {"idle", "done"}

Receive(t, body) ==
    /\ tasks[t].pc = "idle"
    /\ tasks' = [tasks EXCEPT ![t] =
                   [@ EXCEPT !.pc = "pending", !.body = Some(body),
                             !.concurrent = \E u \in 1..NTasks : InFlight(u)]]
    /\ UNCHANGED <<fake_db, product_counter, resp, assigned, deleted, returned,
                   running>>

Enter(t) ==
    /\ tasks[t].pc = "pending"
    /\ running = 0
    /\ IF ValidProductCreate(tasks[t].body[1])
       THEN /\ tasks' = [tasks EXCEPT ![t].pc = "L132"]
            /\ running' = After(t, "L132")
       ELSE /\ tasks' = [tasks EXCEPT ![t] = [@ EXCEPT !.pc = "done", !.status = 422]]
            /\ running' = 0
    /\ UNCHANGED <<fake_db, product_counter, resp, assigned, deleted, returned>>

Stmt132(t, now) ==
    /\ tasks[t].pc = "L132"
    /\ running \in {0, t}
    /\ tasks' = [tasks EXCEPT ![t] =
                   [@ EXCEPT !.pc = "L137",
                             !.db_product =
                                Some(BuildProduct(tasks[t].body[1],
                                                  product_counter, now))]]
    /\ running' = After(t, "L137")
    /\ UNCHANGED <<fake_db, product_counter, resp, assigned, deleted, returned>>

Stmt137(t) ==
    /\ tasks[t].pc = "L137"
    /\ running \in {0, t}
    /\ fake_db' = DictSet(fake_db, product_counter, tasks[t].db_product[1])
    /\ tasks' = [tasks EXCEPT ![t].pc = "L138"]
    /\ running' = After(t, "L138")
    /\ UNCHANGED <<product_counter, resp, assigned, deleted, returned>>

Stmt138(t) ==
    /\ tasks[t].pc = "L138"
    /\ running \in {0, t}
    /\ product_counter' = NextCounter(fake_db, product_counter)
    /\ tasks' = [tasks EXCEPT ![t].pc = "L139"]
    /\ running' = After(t, "L139")
    /\ UNCHANGED <<fake_db, resp, assigned, deleted, returned>>

Stmt139(t) ==
    /\ tasks[t].pc = "L139"
    /\ running \in {0, t}
    /\ tasks' = [tasks EXCEPT ![t] = [@ EXCEPT !.pc = "done", !.status = 201]]
    /\ running' = 0
    /\ UNCHANGED <<fake_db, product_counter, resp, assigned, deleted, returned>>

NextConc ==
    \/ \E t \in 1..NTasks, body \in ConcBodies : Receive(t, body)
    \/ \E t \in 1..NTasks : Enter(t)
    \/ \E t \in 1..NTasks, now \in Times : Stmt132(t, now)
    \/ \E t \in 1..NTasks : Stmt137(t)
    \/ \E t \in 1..NTasks : Stmt138(t)
    \/ \E t \in 1..NTasks : Stmt139(t)

SpecConc == Init /\ [][NextConc]_vars

-----------------------------------------------------------------------------
(* Properties *)

Max(a, b) == IF a > b THEN a ELSE b

CreateOk(r) == r.op = "create" /\ r.status = 201

\* C1: the id returned by each successful create is strictly greater than
\* the id returned by every earlier successful create, so no id is assigned
\* twice, also after the product that held it was deleted; the response of
\* a successful create carries the id recorded last.
C1_IdsStrictlyIncrease ==
    /\ \A i \in 1..Len(assigned) : \A j \in 1..Len(assigned) :
          i < j => assigned[i] < assigned[j]
    /\ CreateOk(resp) => resp.body.id = assigned[Len(assigned)]

C1_Witness ==
    /\ CreateOk(resp)
    /\ Len(assigned) >= 2
    /\ assigned[1] \in deleted

\* The position of id in the order in which ids were created.
CreationRank(id) == CHOOSE i \in 1..Len(assigned) : assigned[i] = id

\* The stored ids that pass the in_stock filter f (all of them when f is None).
FilteredIds(f) ==
    {id \in Keys(fake_db) : f = None \/ DictGet(fake_db, id).in_stock = f[1]}

\* C2: for skip >= 0 and limit in 1..100, list answers 200 with the stored
\* products in creation order, restricted to those whose in_stock equals
\* the filter when one is given, cut to the elements at indices
\* skip .. skip+limit-1 of that filtered sequence; when skip is at least the
\* filtered count the result is empty and no error is signalled.
C2_ListIsFilterThenPage ==
    (resp.op = "list" /\ resp.args[1] >= 0
       /\ resp.args[2] >= 1 /\ resp.args[2] <= 100) =>
    LET skip == resp.args[1]
        limit == resp.args[2]
        F == FilteredIds(resp.args[3])
        n == Cardinality(F)
    IN  /\ resp.status = 200
        /\ Len(resp.body) = Max(0, Min(limit, n - skip))
        /\ \A i \in 1..Len(resp.body) :
              /\ resp.body[i].id \in F
              /\ resp.body[i] = DictGet(fake_db, resp.body[i].id)
              /\ Cardinality({j \in F : CreationRank(j) < CreationRank(resp.body[i].id)})
                   = skip + i - 1

\* a list with a filter that drops an earlier product, cut inside the
\* filtered sequence
C2_Witness ==
    /\ resp.op = "list" /\ resp.status = 200
    /\ resp.args[3] # None
    /\ Cardinality(FilteredIds(resp.args[3])) < Len(fake_db)
    /\ Len(resp.body) = 1
    /\ resp.body[1] # fake_db[1].value

\* The inputs the claim names as failing validation.
FailsValidation(body) ==
    \/ Len(body.name) = 0
    \/ Len(body.name) > 100
    \/ body.price = 0
    \/ body.price < 0

\* C3: a create whose input has an empty name, a name longer than 100
\* characters, a price of 0 or a negative price answers 422 and leaves the
\* stored products and the id counter as they were; the id of a successful
\* create is the number of successful creates so far, whatever was rejected
\* in between.
C3_RejectedCreateChangesNothing ==
    /\ [][(resp'.op = "create" /\ FailsValidation(resp'.args)) =>
            /\ resp'.status = 422
            /\ fake_db' = fake_db
            /\ product_counter' = product_counter]_vars
    /\ [](CreateOk(resp) => resp.body.id = Len(assigned))

C3_Witness ==
    /\ resp.op = "create" /\ resp.status = 422
    /\ FailsValidation(resp.args)
    /\ Len(fake_db) >= 1

\* An id the store does not hold: never created, or deleted since.
NotStored(id) ==
    \/ \A i \in 1..Len(assigned) : assigned[i] # id
    \/ id \in deleted

\* C4: delete(id), id > 0, for an id that was never created or was already
\* deleted answers 404 and leaves the stored products, their number and the
\* id counter as they were.
C4_DeleteAbsentChangesNothing ==
    [][(resp'.op = "delete" /\ resp'.args > 0 /\ NotStored(resp'.args)) =>
         /\ resp'.status = 404
         /\ fake_db' = fake_db
         /\ Len(fake_db') = Len(fake_db)
         /\ product_counter' = product_counter]_vars

\* a second delete of a deleted id, with another product stored
C4_Witness ==
    /\ resp.op = "delete" /\ resp.status = 404
    /\ resp.args \in deleted
    /\ Len(fake_db) >= 1

\* C5: once delete(id) has succeeded, id is not in the store, a get(id)
\* answers 404 and no list result holds a product with that id, whatever
\* operations followed the delete.
C5_DeletedStaysDeleted ==
    \A id \in deleted :
       /\ ~DictHas(fake_db, id)
       /\ \A i \in 1..Len(fake_db) : fake_db[i].value.id # id
       /\ (resp.op = "get" /\ resp.args = id) => resp.status = 404
       /\ (resp.op = "list" /\ resp.status = 200) =>
             \A i \in 1..Len(resp.body) : resp.body[i].id # id

\* a get of a deleted id after a later create
C5_Witness ==
    /\ resp.op = "get" /\ resp.args \in deleted
    /\ \E i \in 1..Len(assigned) : assigned[i] > resp.args
    /\ Len(fake_db) >= 1

\* C6: every product p returned by a create whose id was not deleted since
\* is stored under p.id equal to p in all fields, and a get(p.id) answers
\* 200 with a product equal to p in id, name, description, price, in_stock
\* and created_at.
C6_GetReturnsCreated ==
    /\ \A p \in returned :
          /\ DictHas(fake_db, p.id)
          /\ DictGet(fake_db, p.id) = p
          /\ (resp.op = "get" /\ resp.args = p.id) =>
                /\ resp.status = 200
                /\ resp.body.id = p.id
                /\ resp.body.name = p.name
                /\ resp.body.description = p.description
                /\ resp.body.price = p.price
                /\ resp.body.in_stock = p.in_stock
                /\ resp.body.created_at = p.created_at
    /\ (resp.op = "get" /\ resp.status = 200) => resp.body \in returned

\* a get of the first product after another create and a delete of that one
C6_Witness ==
    /\ resp.op = "get" /\ resp.status = 200 /\ resp.args = 1
    /\ Len(assigned) >= 2
    /\ deleted # {}

Finished(t) == tasks[t].pc = "done" /\ tasks[t].status = 201

\* C7: with several creates in flight, no two finished creates were
\* assigned the same id, and the product each one returned is the one
\* stored under its id: no create overwrote the product of another.
C7_ConcurrentCreatesDistinct ==
    \A t \in 1..NTasks : Finished(t) =>
       /\ \A u \in 1..NTasks :
             (u # t /\ Finished(u)) =>
                tasks[u].db_product[1].id # tasks[t].db_product[1].id
       /\ DictHas(fake_db, tasks[t].db_product[1].id)
       /\ DictGet(fake_db, tasks[t].db_product[1].id) = tasks[t].db_product[1]

\* two creates finished, one of them received while the other was in flight
C7_Witness ==
    \E t \in 1..NTasks, u \in 1..NTasks :
       /\ t # u
       /\ Finished(t) /\ Finished(u)
       /\ tasks[u].concurrent

\* C8: every stored product has an id greater than zero that no other
\* stored product has, a price strictly greater than 0 and a name of
\* length 1 to 100.
C8_StoredProductsValid ==
    \A i \in 1..Len(fake_db) :
       /\ fake_db[i].value.id > 0
       /\ \A j \in 1..Len(fake_db) :
             i # j => fake_db[i].value.id # fake_db[j].value.id
       /\ fake_db[i].value.price > 0
       /\ Len(fake_db[i].value.name) >= 1
       /\ Len(fake_db[i].value.name) <= 100

C8_Witness ==
    /\ Len(fake_db) >= 2
    /\ \E i \in 1..Len(fake_db) : Len(fake_db[i].value.name) = 100
    /\ resp.op = "create" /\ resp.status = 422

\* C9: a successful create stores exactly one more product, under the
\* returned id, which was not stored before; the id counter is exactly one
\* higher; every product stored before is still stored with the same fields.
C9_CreateAddsExactlyOne ==
    [][CreateOk(resp') =>
         /\ Len(fake_db') = Len(fake_db) + 1
         /\ Cardinality(Keys(fake_db')) = Cardinality(Keys(fake_db)) + 1
         /\ ~DictHas(fake_db, resp'.body.id)
         /\ DictHas(fake_db', resp'.body.id)
         /\ DictGet(fake_db', resp'.body.id) = resp'.body
         /\ product_counter' = product_counter + 1
         /\ \A k \in Keys(fake_db) :
               /\ DictHas(fake_db', k)
               /\ DictGet(fake_db', k) = DictGet(fake_db, k)]_vars

\* a create after a delete, into a store that holds the new product last
C9_Witness ==
    /\ CreateOk(resp)
    /\ deleted # {}
    /\ Len(fake_db) >= 1
    /\ resp.body.id = fake_db[Len(fake_db)].key

\* C10: a get, whether it answers a product or 404, and a list, for any
\* skip, limit and filter, leave the stored products, their fields, their
\* order and the id counter as they were.
C10_ReadsChangeNothing ==
    [][resp'.op \in {"get", "list"} =>
         /\ fake_db' = fake_db
         /\ product_counter' = product_counter]_vars

C10_Witness ==
    /\ resp.op = "get" /\ resp.status = 200
    /\ Len(fake_db) >= 2

====
